---- MODULE Spec2Model ----
(***************************************************************************)
(* Request execution core of the Crawl4AI TypeScript SDK (src/src/sdk.ts,  *)
(* src/src/errors.ts): one client, one logical call at a time.  A call     *)
(* enters either through requestWithRetry (crawl, markdown, html, ...) or  *)
(* directly through request (health, metrics, ...).  Every await of the    *)
(* code is a point where the environment (network, timers, the caller's    *)
(* AbortSignal) takes a step.  Spec follows the calls of a client with a   *)
(* fixed config; SpecClient follows the config itself, from the            *)
(* constructor through the setters that interleave with a call.            *)
(***************************************************************************)
EXTENDS Integers, Sequences, FiniteSets, TLC

\* ----- bounds of the model -----
MaxRetries == 2
MaxRetryAfter == 2
MaxUrlLen == 3
MaxUrls == 2
MaxItems == 2
MaxLines == 3

\* ----- constants of the program -----
DEFAULT_TIMEOUT == 300000
DEFAULT_RETRIES == 3
DEFAULT_RETRY_DELAY == 1000
RETRY_BACKOFF_MULTIPLIER == 2
HEALTH_CHECK_TIMEOUT == 5000
CLIENT_ERROR_MIN == 400
CLIENT_ERROR_MAX == 500
RATE_LIMIT_STATUS == 429

\* JavaScript's undefined and NaN in a numeric position
Undef == 0 - 1
NaN == 0 - 2
\* a key the caller's config object does not have
Absent == 0 - 3

\* A string that holds an address is a sequence of tokens: the origin of an absolute
\* URL, the path separator, or an endpoint path.  <<>> is the empty string, and also
\* the missing baseUrl (both are falsy).
Origin == "http://h"
UrlTokens == {Origin, "/"}
UrlStrings == UNION {[1..n -> UrlTokens] : n \in 0..MaxUrlLen}

\* ----- the environment's inputs -----
Statuses == {200, 400, 401, 404, 418, 429, 500, 501, 503}
\* response.statusText: empty (HTTP/2) or the reason phrase the server sent
StatusTexts == {"", "Reason Phrase"}
\* value of the content-type response header: the media type and its parameters, as
\* a sequence of tokens; <<>> when the header is absent
ContentTypes == {<<"application/json">>, <<"text/plain">>, <<"text/event-stream">>, <<>>}
AllContentTypes ==
    ContentTypes \cup
    {<<"application/json", "; charset=utf-8">>, <<"text/html">>,
     <<"text/html", "; charset=utf-8">>, <<"text/event-stream", "; charset=utf-8">>,
     <<"application/xml">>}
\* value of the retry-after response header; "" when the header is absent
RetryAfterHeaders == {""} \cup {ToString(n) : n \in 0..MaxRetryAfter} \cup {"Wed, 21 Oct 2026 07:28:00 GMT"}
BaseUrls == {<<Origin>>}
ApiTokens == {"", "token"}
RetriesValues == {Undef} \cup 0..MaxRetries
RetryDelays == {0, DEFAULT_RETRY_DELAY}
TimeoutOverrides == {Undef, HEALTH_CHECK_TIMEOUT}
ValidateStatusKinds == {"default", "lt500"}

\* parseInt(s, 10) on the header values the model draws
parseInt(s) ==
    IF \E n \in 0..MaxRetryAfter : ToString(n) = s
    THEN CHOOSE n \in 0..MaxRetryAfter : ToString(n) = s
    ELSE NaN

\* JavaScript truthiness of a number | undefined
Truthy(n) == n # Undef /\ n # NaN /\ n # 0

\* ----- Error Taxonomy (errors.ts) -----
\* statusText and data are "" when the field is not set
Err(kind, status, retryAfter, tmo, u, fetchMsg) ==
    [kind |-> kind, status |-> status, retryAfter |-> retryAfter, fetchMsg |-> fetchMsg,
     statusText |-> "", data |-> "", timeout |-> tmo, url |-> u, request |-> <<>>]

NoError == Err("none", Undef, Undef, Undef, <<>>, FALSE)

Crawl4AIError(status, statusText, data) ==
    [Err("Crawl4AIError", status, Undef, Undef, <<>>, FALSE)
        EXCEPT !.statusText = statusText, !.data = data]
NetworkError == Err("NetworkError", Undef, Undef, Undef, <<>>, TRUE)
TimeoutError(tmo, u) == Err("TimeoutError", Undef, Undef, tmo, u, FALSE)
RequestValidationError ==
    [Err("RequestValidationError", 400, Undef, Undef, <<>>, FALSE)
        EXCEPT !.statusText = "Bad Request"]
RateLimitError(retryAfter) ==
    [Err("RateLimitError", 429, retryAfter, Undef, <<>>, FALSE)
        EXCEPT !.statusText = "Too Many Requests"]
AuthError(status) ==
    [Err("AuthError", status, Undef, Undef, <<>>, FALSE)
        EXCEPT !.statusText = IF status = 401 THEN "Unauthorized" ELSE "Forbidden"]
ServerError(status, statusText) ==
    [Err("ServerError", status, Undef, Undef, <<>>, FALSE)
        EXCEPT !.statusText = IF statusText # "" THEN statusText ELSE "Internal Server Error"]
NotFoundError ==
    [Err("NotFoundError", 404, Undef, Undef, <<>>, FALSE) EXCEPT !.statusText = "Not Found"]
ParseError == Err("ParseError", Undef, Undef, Undef, <<>>, FALSE)

\* exceptions of the runtime, outside the taxonomy
AbortError == Err("AbortError", Undef, Undef, Undef, <<>>, FALSE)
SyntaxError == Err("SyntaxError", Undef, Undef, Undef, <<>>, FALSE)
\* TypeError; fetchMsg says whether its message includes 'fetch'
TypeError(fetchMsg) == Err("TypeError", Undef, Undef, Undef, <<>>, fetchMsg)
\* new Error('No attempts made')
NoAttemptsMade == Err("Error", Undef, Undef, Undef, <<>>, FALSE)

Crawl4AIErrorKinds ==
    {"Crawl4AIError", "NetworkError", "TimeoutError", "RequestValidationError",
     "RateLimitError", "AuthError", "ServerError", "NotFoundError", "ParseError"}

\* error instanceof Crawl4AIError
isCrawl4AIError(e) == e.kind \in Crawl4AIErrorKinds

\* mutant: the fall-through error keeps only the status
createHttpError_bareGeneric(status, statusText, data, retryAfterHeader) ==
    CASE status = 400 -> RequestValidationError
      [] status = 401 -> AuthError(401)
      [] status = 403 -> AuthError(403)
      [] status = 404 -> NotFoundError
      [] status = 429 ->
            RateLimitError(IF retryAfterHeader # "" THEN parseInt(retryAfterHeader) ELSE Undef)
      [] status \in {500, 502, 503, 504} -> ServerError(status, statusText)
      [] OTHER -> Crawl4AIError(status, "", "")

\* mutant: status 400 has no dedicated kind
createHttpError_badRequestGeneric(status, statusText, data, retryAfterHeader) ==
    CASE status = 400 -> Crawl4AIError(status, statusText, data)
      [] status = 401 -> AuthError(401)
      [] status = 403 -> AuthError(403)
      [] status = 404 -> NotFoundError
      [] status = 429 ->
            RateLimitError(IF retryAfterHeader # "" THEN parseInt(retryAfterHeader) ELSE Undef)
      [] status \in {500, 502, 503, 504} -> ServerError(status, statusText)
      [] OTHER -> Crawl4AIError(status, statusText, data)

createHttpError(status, statusText, data, retryAfterHeader) ==
    CASE status = 400 -> RequestValidationError
      [] status = 401 -> AuthError(401)
      [] status = 403 -> AuthError(403)
      [] status = 404 -> NotFoundError
      [] status = 429 ->
            RateLimitError(IF retryAfterHeader # "" THEN parseInt(retryAfterHeader) ELSE Undef)
      [] status \in {500, 502, 503, 504} -> ServerError(status, statusText)
      [] OTHER -> Crawl4AIError(status, statusText, data)

\* ----- state -----
VARIABLES
    ctor,              \* the constructor call: the config it was given, the error it threw
    config,            \* this.config
    options,           \* the options of the logical call in progress
    pc,                \* "idle", "fetch", "body", "sleeping", "done"
    attempt,           \* loop variable of requestWithRetry
    lastError,         \* lastError of requestWithRetry
    result,            \* how the logical call settled
    url,               \* request(): const url
    requestHeaders,    \* request(): const requestHeaders
    timeout,           \* request(): timeout in force
    timerArmed,        \* request(): the deadline timer is pending
    controllerAborted, \* request(): controller.signal.aborted
    callerAborted,     \* options.signal.aborted
    response,          \* the response received by the attempt in progress or just settled
    lastOut,           \* how the last settled attempt left request()
    timerFired,        \* the deadline timer fired during the current or last attempt
    nAttempts,         \* fetch calls issued by the logical call
    sleeps,            \* delays of the backoff sleeps of the logical call, in order
    all500,            \* every settled attempt so far failed on a 500 response
    data,              \* the decoded value a method hands to normalizeArrayResponse
    normalized,        \* what normalizeArrayResponse returned for it
    sseInput,          \* the frames the server sends on an event stream, and how it writes them
    source,            \* the text of the event stream not yet delivered
    buffer,            \* Stream Decoder: the text buffer
    events,            \* Stream Decoder: the StreamEvents yielded so far
    reader,            \* the stream resource: "none", "locked", "released"
    streamEnd,         \* how the decoding ended, "" while it has not
    suspended          \* the locals of the other logical call on the client, waiting at an await

\* what is done with the value a call returned, after the call
consumerVars == <<data, normalized, sseInput, source, buffer, events, reader, streamEnd>>

\* the client and the call in progress
clientVars == <<ctor, config, options, pc, attempt, lastError, result, url, requestHeaders, timeout, timerArmed,
                controllerAborted, callerAborted, response, lastOut, timerFired,
                nAttempts, sleeps, all500>>

vars == <<consumerVars, clientVars, suspended>>

\* bodyRead: how request() has read the body of the response, "none" while unread
NoResponse ==
    [status |-> 0, retryAfter |-> "", statusText |-> "", contentType |-> <<>>,
     bodyRead |-> "none"]
NoOutcome == [type |-> "none", value |-> "", error |-> NoError]
Returned(v) == [type |-> "return", value |-> v, error |-> NoError]
Thrown(e) == [type |-> "throw", value |-> "", error |-> e]

\* ----- the constructor -----
\* mutant: every non-empty string is taken for a URL
isValidUrl_lenient(s) == Len(s) >= 1

\* new URL(s) does not throw: s starts with the origin of an absolute URL
isValidUrl(s) == Len(s) >= 1 /\ s[1] = Origin

\* s.replace(/\/$/, ''): the pattern matches one '/' at the end of s
stripTrailingSlash(s) ==
    IF Len(s) >= 1 /\ s[Len(s)] = "/" THEN SubSeq(s, 1, Len(s) - 1) ELSE s

\* mutant: a falsy option gives way to the default
spread_orDefault(default, given) == IF given \in {Absent, Undef, NaN, 0} THEN default ELSE given

\* { ...defaults, ...config }: a key of config wins, whatever its value
spread(default, given) == IF given = Absent THEN default ELSE given

\* the checks of the numeric options, skipped for undefined
validTimeout(t) == t \in {Absent, Undef} \/ (t # NaN /\ t > 0)
validRetries(r) == r \in {Absent, Undef} \/ (r # NaN /\ r >= 0)
validRetryDelay(d) == d \in {Absent, Undef} \/ (d # NaN /\ d >= 0)

\* A header object is a function from the header names it has to their values.
HeaderKeys == {"Content-Type", "Authorization"}
HeaderValues == {"text/plain", "Basic caller"}
HeaderMaps == UNION {[keys -> HeaderValues] : keys \in SUBSET HeaderKeys}
NoHeaders == [k \in {} |-> ""]

\* mutant: on a key of both objects the left one wins
overlay_leftWins(left, right) ==
    [k \in DOMAIN left \cup DOMAIN right |-> IF k \in DOMAIN left THEN left[k] ELSE right[k]]

\* { ...left, ...right }
overlay(left, right) ==
    [k \in DOMAIN left \cup DOMAIN right |-> IF k \in DOMAIN right THEN right[k] ELSE left[k]]

\* delete headers[key]
withoutKey(headers, key) == [k \in DOMAIN headers \ {key} |-> headers[k]]

\* `Bearer ${token}`
authorizationOf(token) == "Bearer " \o token

\* { 'Content-Type': 'application/json' }
defaultContentType == [k \in {"Content-Type"} |-> "application/json"]

\* headers.Authorization = `Bearer ${token}`
withAuthorization(headers, token) ==
    overlay(headers, [k \in {"Authorization"} |-> authorizationOf(token)])

\* what the constructor throws for a config object, NoError when it returns
constructorError(input) ==
    IF input.baseUrl = <<>> THEN RequestValidationError
    ELSE IF ~isValidUrl(input.baseUrl) THEN RequestValidationError
    ELSE IF ~validTimeout(input.timeout) THEN RequestValidationError
    ELSE IF ~validRetries(input.retries) THEN RequestValidationError
    ELSE IF ~validRetryDelay(input.retryDelay) THEN RequestValidationError
    ELSE NoError

\* this.config after the merge with the defaults
constructorConfig(input) ==
    [baseUrl |-> stripTrailingSlash(input.baseUrl),
     apiToken |-> input.apiToken,
     timeout |-> spread(DEFAULT_TIMEOUT, input.timeout),
     retries |-> spread(DEFAULT_RETRIES, input.retries),
     retryDelay |-> spread(DEFAULT_RETRY_DELAY, input.retryDelay),
     defaultHeaders |->
        IF input.apiToken # ""
        THEN withAuthorization(overlay(defaultContentType, input.defaultHeaders),
                               input.apiToken)
        ELSE overlay(defaultContentType, input.defaultHeaders),
     throwOnError |-> input.throwOnError,
     validateStatus |-> input.validateStatus]

\* no client object: the constructor threw
NoConfig ==
    [baseUrl |-> <<>>, apiToken |-> "", timeout |-> Undef, retries |-> Undef,
     retryDelay |-> Undef, defaultHeaders |-> NoHeaders,
     throwOnError |-> TRUE, validateStatus |-> "default"]

\* the config objects a collaborator passes to new Crawl4AI(...)
ConfigInputs ==
    [baseUrl : BaseUrls, apiToken : {""}, timeout : {Absent}, retries : RetriesValues,
     retryDelay : RetryDelays, defaultHeaders : {NoHeaders}, throwOnError : BOOLEAN,
     validateStatus : ValidateStatusKinds]

\* the configs of the clients built from them
Configs == {constructorConfig(input) : input \in ConfigInputs}

constructed == ctor.error = NoError

\* ----- the client's methods -----
\* the methods that go through requestWithRetry and those that call request()
\* mutant: the health check goes through requestWithRetry too
RetryMethods_andHealth == {"crawl", "markdown", "html", "executeJs", "ask", "llm", "health"}

RetryMethods == {"crawl", "markdown", "html", "executeJs", "ask", "llm"}
DirectMethods == {"health", "metrics", "schema", "getRoot"}
\* the methods that await health() in a try block
HealthWrappers == {"testConnection", "version"}
\* the methods that take one target URL, and crawl, which takes a string or a list
SingleUrlMethods == {"markdown", "html", "executeJs", "llm"}

\* A call of a method: urls is the list of its target URLs (for crawl the list
\* `Array.isArray(urls) ? urls : [urls]`, for a method without target the empty list),
\* timeout, signal and headers are its RequestConfig.
CallOf(method, urls, tmo, signal, headers) ==
    [timeout |-> tmo, headers |-> headers, throwOnError |-> FALSE, method |-> method,
     urls |-> urls, signal |-> signal, viaRetry |-> method \in RetryMethods]

\* testConnection(options) and version(options): options?.throwOnError; testConnection
\* calls health({ timeout: HEALTH_CHECK_TIMEOUT }), version calls health()
WrapperCall(method, throwOnError) ==
    [CallOf(method, <<>>, IF method = "testConnection" THEN HEALTH_CHECK_TIMEOUT ELSE Undef,
            FALSE, NoHeaders)
     EXCEPT !.throwOnError = throwOnError]

\* the target lists a method can be called with; the lists of crawl hold strings of up
\* to two tokens
UrlLists == UNION {[1..n -> {s \in UrlStrings : Len(s) <= 2}] : n \in 0..MaxUrls}
TargetLists(method) ==
    IF method = "crawl" THEN UrlLists
    ELSE IF method \in SingleUrlMethods THEN {<<u>> : u \in UrlStrings}
    ELSE {<<>>}

\* crawl of one valid URL and health, under every RequestConfig
CallOptions ==
    {CallOf("crawl", <<<<Origin>>>>, tmo, signal, NoHeaders) : tmo \in TimeoutOverrides, signal \in BOOLEAN}
    \cup {CallOf("health", <<>>, tmo, signal, NoHeaders) : tmo \in TimeoutOverrides, signal \in BOOLEAN}

\* The activation of a logical call: its options and the locals of its requestWithRetry
\* and request() frames, with what the model records about its attempts. Each call of a
\* method creates its own.
Activation ==
    [timeout |-> timeout, url |-> url,
     options |-> options, pc |-> pc, attempt |-> attempt, lastError |-> lastError,
     result |-> result, requestHeaders |-> requestHeaders, timerArmed |-> timerArmed,
     controllerAborted |-> controllerAborted, callerAborted |-> callerAborted,
     response |-> response, lastOut |-> lastOut, timerFired |-> timerFired,
     nAttempts |-> nAttempts, sleeps |-> sleeps, all500 |-> all500]

\* the state after new Crawl4AI(input)
Construct(input) ==
    /\ ctor = [input |-> input, error |-> constructorError(input)]
    /\ config = (IF constructorError(input) = NoError THEN constructorConfig(input)
                 ELSE NoConfig)
    /\ options = CallOf("health", <<>>, Undef, FALSE, NoHeaders)
    /\ pc = "idle"
    /\ attempt = 0
    /\ lastError = NoError
    /\ result = NoOutcome
    /\ url = <<>>
    /\ requestHeaders = NoHeaders
    /\ timeout = Undef
    /\ timerArmed = FALSE
    /\ controllerAborted = FALSE
    /\ callerAborted = FALSE
    /\ response = NoResponse
    /\ lastOut = NoOutcome
    /\ timerFired = FALSE
    /\ nAttempts = 0
    /\ sleeps = <<>>
    /\ all500 = TRUE
    /\ suspended = Activation

\* ----- decoded values -----
\* A JavaScript value as far as normalizeArrayResponse can tell values apart: its type,
\* the items of an array, the own properties of an object.
NoFields == [k \in {} |-> 0]
Value(type, num, items, fields) ==
    [type |-> type, num |-> num, items |-> items, fields |-> fields]
Undefined == Value("undefined", 0, <<>>, NoFields)
Null == Value("null", 0, <<>>, NoFields)
Num(n) == Value("number", n, <<>>, NoFields)
Str(n) == Value("string", n, <<>>, NoFields)
Arr(items) == Value("array", 0, items, NoFields)
Obj(fields) == Value("object", 0, <<>>, fields)

\* no event stream is open
StreamIdle ==
    /\ sseInput = [lines |-> <<>>, crlf |-> FALSE, space |-> FALSE]
    /\ source = <<>>
    /\ buffer = <<>>
    /\ events = <<>>
    /\ reader = "none"
    /\ streamEnd = ""

\* nothing has been handed to normalizeArrayResponse, no event stream is open
ConsumersIdle ==
    /\ data = Undefined
    /\ normalized = Undefined
    /\ StreamIdle

Init ==
    /\ \E input \in ConfigInputs : Construct(input)
    /\ ConsumersIdle


\* ----- Transport Executor: request() -----
endpoint(opts) ==
    CASE opts.method = "crawl" -> "/crawl"
      [] opts.method = "markdown" -> "/md"
      [] opts.method = "html" -> "/html"
      [] opts.method = "executeJs" -> "/execute_js"
      [] opts.method = "ask" -> "/ask"
      [] opts.method = "llm" -> "/llm/"
      [] opts.method \in {"health"} \cup HealthWrappers -> "/health"
      [] opts.method = "metrics" -> "/metrics"
      [] opts.method = "schema" -> "/schema"
      [] OTHER -> "/"

\* mutant: the address is resolved once, for the first attempt of the call
resolveUrl_once(opts) ==
    IF nAttempts = 0 THEN config.baseUrl \o <<endpoint(opts)>> ELSE url

\* const url = `${this.config.baseUrl}${endpoint}`
resolveUrl(opts) == config.baseUrl \o <<endpoint(opts)>>

\* this.config.validateStatus(status): the default predicate or a caller-supplied one
validateStatus(status) ==
    IF config.validateStatus = "default" THEN status < CLIENT_ERROR_MIN ELSE status < 500

\* const requestSignal = signal || controller.signal
requestSignalAborted ==
    IF options.signal THEN callerAborted ELSE controllerAborted

\* mutant: the per-call headers are assigned into the defaults
defaultHeadersAfter_assigned(headers) == overlay(config.defaultHeaders, headers)

\* this.config.defaultHeaders once requestHeaders is built: the spread reads them into
\* a new object and writes nothing back
defaultHeadersAfter(headers) == config.defaultHeaders

\* request() from its entry up to the call of fetch
requestStart(opts) ==
    /\ url' = resolveUrl(opts)
    /\ requestHeaders' = overlay(config.defaultHeaders, opts.headers)
    /\ config' = [config EXCEPT !.defaultHeaders = defaultHeadersAfter(opts.headers)]
    /\ timeout' = (IF opts.timeout # Undef THEN opts.timeout ELSE config.timeout)
    /\ timerArmed' = TRUE
    /\ controllerAborted' = FALSE
    /\ response' = NoResponse
    /\ lastOut' = NoOutcome
    /\ timerFired' = FALSE
    /\ nAttempts' = nAttempts + 1
    /\ pc' = "fetch"

\* mutant: the classified error is returned when the client does not throw
responseOutcome_returnError(resp, u) ==
    IF validateStatus(resp.status) THEN Returned("body")
    ELSE IF config.throwOnError
    THEN Thrown([createHttpError(resp.status, resp.statusText, "body", resp.retryAfter) EXCEPT !.request = u])
    ELSE [type |-> "return", value |-> "error",
          error |-> [createHttpError(resp.status, resp.statusText, "body", resp.retryAfter) EXCEPT !.request = u]]

\* mutant: a failing status is thrown whatever throwOnError says
responseOutcome_throwAlways(resp, u) ==
    IF ~validateStatus(resp.status)
    THEN Thrown([createHttpError(resp.status, resp.statusText, "body", resp.retryAfter) EXCEPT !.request = u])
    ELSE Returned("body")

\* request(): after the body is decoded, the status check and what leaves the try block
responseOutcome(resp, u) ==
    IF ~validateStatus(resp.status) /\ config.throwOnError
    THEN Thrown([createHttpError(resp.status, resp.statusText, "body", resp.retryAfter) EXCEPT !.request = u])
    ELSE Returned("body")

\* request(): the catch block
catchBlock(e, tmo, u) ==
    IF e.kind = "AbortError" THEN TimeoutError(tmo, u)
    ELSE IF e.kind = "TypeError" /\ e.fetchMsg THEN NetworkError
    ELSE e

\* an outcome of the try block as it leaves request(): a throw passes the catch block
leaveRequest(out) ==
    IF out.type = "throw" THEN Thrown(catchBlock(out.error, timeout, url)) ELSE out

\* ----- Retry Coordinator: requestWithRetry() -----
\* attempt <= this.config.retries (false when retries is undefined)
loopCondition(a) == config.retries # Undef /\ a <= config.retries

\* mutant: an error outside the taxonomy is rethrown at once too
isNonRetryable_taxonomyOnly(e) ==
    \/ ~isCrawl4AIError(e)
    \/ (Truthy(e.status) /\ e.status >= CLIENT_ERROR_MIN /\ e.status < CLIENT_ERROR_MAX
        /\ e.status # RATE_LIMIT_STATUS)

\* the 4xx-except-429 test that rethrows at once
isNonRetryable(e) ==
    /\ isCrawl4AIError(e)
    /\ Truthy(e.status)
    /\ e.status >= CLIENT_ERROR_MIN
    /\ e.status < CLIENT_ERROR_MAX
    /\ e.status # RATE_LIMIT_STATUS

\* mutant: the multiplier is applied as a factor, not as a power
backoffDelay_linear(a) == config.retryDelay * RETRY_BACKOFF_MULTIPLIER * a

\* this.config.retryDelay * RETRY_BACKOFF_MULTIPLIER ** attempt (NaN for undefined)
backoffDelay(a) ==
    IF config.retryDelay \in {Undef, NaN} THEN NaN
    ELSE config.retryDelay * RETRY_BACKOFF_MULTIPLIER ^ a

\* mutant: retryAfter is used whenever the error is a RateLimitError
retryDelayFor_anyRateLimit(e, a) ==
    IF e.kind = "RateLimitError" THEN e.retryAfter * 1000 ELSE RETRY_BACKOFF_MULTIPLIER ^ a * config.retryDelay

\* the delay slept after error e on attempt a
retryDelayFor(e, a) ==
    IF e.kind = "RateLimitError" /\ Truthy(e.retryAfter)
    THEN e.retryAfter * 1000
    ELSE backoffDelay(a)

\* mutant: the value of a successful attempt is kept and the loop goes on
returnValue_afterLoop(out) ==
    /\ result' = out
    /\ IF attempt < config.retries
       THEN pc' = "sleeping" /\ sleeps' = Append(sleeps, backoffDelay(attempt))
       ELSE pc' = "done" /\ UNCHANGED sleeps
    /\ UNCHANGED <<attempt, lastError>>

\* return await this.request(...): the value leaves requestWithRetry at once
returnValue(out) ==
    /\ pc' = "done"
    /\ result' = out
    /\ UNCHANGED <<attempt, lastError, sleeps>>

\* mutant: the first error of the call is kept
recordError_keepFirst(prev, e) == IF prev = NoAttemptsMade THEN e ELSE prev

\* lastError = error as Error
recordError(prev, e) == e

\* what health() can resolve to, as far as `health.version` goes: an object with a
\* version, a value without one (an object, a string, the response of an event stream),
\* and the JSON value null, of which no property can be read
HealthValues == {"version", "noVersion", "null"}

\* mutant: the catch block rethrows whatever the options say
methodOutcome_rethrow(opts, out, health) ==
    IF opts.method \in HealthWrappers /\ out.type = "return"
    THEN Returned(IF opts.method = "testConnection" THEN "true" ELSE "version")
    ELSE out

\* What the method of a direct call settles with once health()/request() has settled
\* with out: health, metrics, schema and getRoot pass it on; testConnection and version
\* run their try block and its catch block.
methodOutcome(opts, out, health) ==
    IF opts.method \notin HealthWrappers THEN out
    ELSE LET tried ==
                 IF out.type = "throw" THEN out
                 ELSE IF opts.method = "testConnection" THEN Returned("true")
                 ELSE IF health = "null" THEN Thrown(TypeError(FALSE))
                 ELSE IF health = "version" THEN Returned("version")
                 ELSE Returned("unknown")
         IN IF tried.type = "return" \/ opts.throwOnError
            THEN tried
            ELSE Returned(IF opts.method = "testConnection" THEN "false" ELSE "unknown")

\* mutant: an attempt leaves request() without clearing its timer
Settle_keepTimer(out, resp) ==
    /\ lastOut' = out
    /\ UNCHANGED timerArmed
    /\ all500' = (all500 /\ out.type = "throw" /\ resp.status = 500)
    /\ IF ~options.viaRetry
       THEN /\ pc' = "done"
            /\ \E health \in HealthValues : result' = methodOutcome(options, out, health)
            /\ UNCHANGED <<attempt, lastError, sleeps>>
       ELSE IF out.type = "return"
       THEN returnValue(out)
       ELSE /\ lastError' = recordError(lastError, out.error)
            /\ IF isNonRetryable(out.error)
               THEN /\ pc' = "done"
                    /\ result' = Thrown(out.error)
                    /\ UNCHANGED <<attempt, sleeps>>
               ELSE IF attempt < config.retries
               THEN /\ pc' = "sleeping"
                    /\ sleeps' = Append(sleeps, retryDelayFor(out.error, attempt))
                    /\ UNCHANGED <<attempt, result>>
               ELSE /\ attempt' = attempt + 1
                    /\ pc' = "done"
                    /\ result' = Thrown(lastError')
                    /\ UNCHANGED sleeps

\* An attempt leaves request() with outcome out, having received resp (NoResponse if none);
\* the caller's continuation runs in the same turn.
Settle(out, resp) ==
    /\ lastOut' = out
    /\ timerArmed' = FALSE
    /\ all500' = (all500 /\ out.type = "throw" /\ resp.status = 500)
    /\ IF ~options.viaRetry
       THEN /\ pc' = "done"
            /\ \E health \in HealthValues : result' = methodOutcome(options, out, health)
            /\ UNCHANGED <<attempt, lastError, sleeps>>
       ELSE IF out.type = "return"
       THEN returnValue(out)
       ELSE /\ lastError' = recordError(lastError, out.error)
            /\ IF isNonRetryable(out.error)
               THEN /\ pc' = "done"
                    /\ result' = Thrown(out.error)
                    /\ UNCHANGED <<attempt, sleeps>>
               ELSE IF attempt < config.retries
               THEN /\ pc' = "sleeping"
                    /\ sleeps' = Append(sleeps, retryDelayFor(out.error, attempt))
                    /\ UNCHANGED <<attempt, result>>
               ELSE \* attempt++ makes the loop condition false: throw lastError
                    /\ attempt' = attempt + 1
                    /\ pc' = "done"
                    /\ result' = Thrown(lastError')
                    /\ UNCHANGED sleeps

\* this.validateUrl(url): what it throws, NoError when it returns
validateUrl(u) == IF isValidUrl(u) THEN NoError ELSE RequestValidationError

\* mutant: crawl validates the first URL of its list only
validateTargets_firstOnly(opts) ==
    IF opts.method \in SingleUrlMethods \cup {"crawl"} /\ opts.urls # <<>>
    THEN validateUrl(opts.urls[1])
    ELSE NoError

\* the validation a method runs before its request: crawl validates every URL of its
\* list, markdown, html, executeJs and llm their one URL, the other methods nothing
validateTargets(opts) ==
    IF /\ opts.method \in SingleUrlMethods \cup {"crawl"}
       /\ \E i \in 1..Len(opts.urls) : validateUrl(opts.urls[i]) # NoError
    THEN RequestValidationError
    ELSE NoError

\* ----- actions -----
\* A collaborator starts a logical call: through requestWithRetry (crawl, markdown, ...)
\* or straight through request (health, metrics, ...).
Call(opts) ==
    /\ constructed
    /\ pc = "idle"
    /\ options' = opts
    /\ attempt' = 0
    /\ IF validateTargets(opts) # NoError
       THEN /\ pc' = "done"
            /\ result' = Thrown(validateTargets(opts))
            /\ UNCHANGED <<config, lastError, url, requestHeaders, timeout, timerArmed,
                           controllerAborted, response, lastOut, timerFired, nAttempts>>
       ELSE /\ lastError' = (IF opts.viaRetry THEN NoAttemptsMade ELSE NoError)
            /\ IF ~opts.viaRetry \/ loopCondition(0)
               THEN /\ requestStart(opts)
                    /\ UNCHANGED result
               ELSE /\ pc' = "done"
                    /\ result' = Thrown(NoAttemptsMade)
                    /\ UNCHANGED <<config, url, requestHeaders, timeout, timerArmed,
                                   controllerAborted, response, lastOut, timerFired,
                                   nAttempts>>
    /\ UNCHANGED <<suspended, consumerVars, ctor, callerAborted, sleeps, all500>>

\* contentType.includes(mediaType)
includes(contentType, mediaType) == \E i \in 1..Len(contentType) : contentType[i] = mediaType

\* mutant: only JSON and the stream are told apart, everything else is left unread
bodyReadFor_jsonOrNone(contentType) ==
    IF includes(contentType, "application/json") THEN "json" ELSE "none"

\* the content-type dispatch: response.json(), response.text(), or the response itself
bodyReadFor(contentType) ==
    IF includes(contentType, "application/json") THEN "json"
    ELSE IF includes(contentType, "text/html") \/ includes(contentType, "text/plain")
    THEN "text"
    ELSE IF includes(contentType, "text/event-stream") THEN "none"
    ELSE "text"

\* fetch resolves with a response: clearTimeout, then the content-type dispatch
FetchResponds(status, statusText, contentType, retryAfter) ==
    /\ pc = "fetch"
    /\ ~requestSignalAborted
    /\ LET resp == [status |-> status, retryAfter |-> retryAfter,
                    statusText |-> statusText, contentType |-> contentType,
                    bodyRead |-> bodyReadFor(contentType)]
       IN /\ response' = resp
          /\ IF resp.bodyRead = "none"
             THEN Settle(Returned("response"), resp)
             ELSE /\ pc' = "body"
                  /\ timerArmed' = FALSE
                  /\ UNCHANGED <<attempt, lastError, result, lastOut, sleeps, all500>>
    /\ UNCHANGED <<suspended, consumerVars, ctor, config, options, url, requestHeaders, timeout, controllerAborted, callerAborted,
                   timerFired, nAttempts>>

\* response.json() / response.text() resolves
BodyDecoded ==
    /\ pc = "body"
    /\ Settle(leaveRequest(responseOutcome(response, url)), response)
    /\ UNCHANGED <<suspended, consumerVars, ctor, config, options, url, requestHeaders, timeout, controllerAborted, callerAborted,
                   response, timerFired, nAttempts>>

\* response.json() / response.text() rejects: malformed JSON (SyntaxError) or the
\* connection drops while the body is read (TypeError: terminated)
BodyFails(e) ==
    /\ pc = "body"
    /\ e.kind = "SyntaxError" => response.bodyRead = "json"
    /\ Settle(leaveRequest(Thrown(e)), response)
    /\ UNCHANGED <<suspended, consumerVars, ctor, config, options, url, requestHeaders, timeout, controllerAborted, callerAborted,
                   response, timerFired, nAttempts>>

\* the body read is cancelled by the caller's signal
BodyAborted ==
    /\ pc = "body"
    /\ options.signal /\ callerAborted
    /\ Settle(leaveRequest(Thrown(AbortError)), response)
    /\ UNCHANGED <<suspended, consumerVars, ctor, config, options, url, requestHeaders, timeout, controllerAborted, callerAborted,
                   response, timerFired, nAttempts>>

\* fetch rejects before any response: connection, DNS or TLS failure
FetchRejects(e) ==
    /\ pc = "fetch"
    /\ ~requestSignalAborted
    /\ Settle(leaveRequest(Thrown(e)), NoResponse)
    /\ UNCHANGED <<suspended, consumerVars, ctor, config, options, url, requestHeaders, timeout, controllerAborted, callerAborted,
                   response, timerFired, nAttempts>>

\* fetch rejects with AbortError because the signal it was given is aborted
FetchAborted ==
    /\ pc = "fetch"
    /\ requestSignalAborted
    /\ Settle(leaveRequest(Thrown(AbortError)), NoResponse)
    /\ UNCHANGED <<suspended, consumerVars, ctor, config, options, url, requestHeaders, timeout, controllerAborted, callerAborted,
                   response, timerFired, nAttempts>>

\* setTimeout(() => controller.abort(), timeout) fires
TimerFires ==
    /\ pc = "fetch"
    /\ timerArmed
    /\ timerArmed' = FALSE
    /\ controllerAborted' = TRUE
    /\ timerFired' = TRUE
    /\ UNCHANGED <<suspended, consumerVars, ctor, config, options, pc, attempt, lastError, result, url, requestHeaders, timeout,
                   callerAborted, response, lastOut, nAttempts, sleeps, all500>>

\* the caller aborts the signal it passed in the options
CallerAborts ==
    /\ pc \in {"fetch", "body", "sleeping"}
    /\ options.signal
    /\ ~callerAborted
    /\ callerAborted' = TRUE
    /\ UNCHANGED <<suspended, consumerVars, ctor, config, options, pc, attempt, lastError, result, url, requestHeaders, timeout,
                   timerArmed, controllerAborted, response, lastOut, timerFired,
                   nAttempts, sleeps, all500>>

\* mutant: the next attempt starts without waiting for the attempt in flight
SleepDone_eager ==
    /\ pc \in {"sleeping", "fetch"}
    /\ attempt < MaxRetries
    /\ attempt' = attempt + 1
    /\ requestStart(options)
    /\ UNCHANGED <<suspended, consumerVars, ctor, options, lastError, result, callerAborted, sleeps, all500>>

\* mutant: the loop variable is not incremented
SleepDone_sameAttempt ==
    /\ pc = "sleeping"
    /\ nAttempts <= MaxRetries + 2
    /\ UNCHANGED attempt
    /\ requestStart(options)
    /\ UNCHANGED <<suspended, consumerVars, ctor, options, lastError, result, callerAborted, sleeps, all500>>

\* the backoff sleep ends: attempt++, the loop condition, the next request()
SleepDone ==
    /\ pc = "sleeping"
    /\ attempt' = attempt + 1
    /\ IF loopCondition(attempt + 1)
       THEN /\ requestStart(options)
            /\ UNCHANGED result
       ELSE /\ pc' = "done"
            /\ result' = Thrown(lastError)
            /\ UNCHANGED <<config, url, requestHeaders, timeout, timerArmed,
                           controllerAborted, response, lastOut, timerFired, nAttempts>>
    /\ UNCHANGED <<suspended, consumerVars, ctor, options, lastError, callerAborted, sleeps, all500>>

\* setBaseUrl(baseUrl): runs whenever the collaborator has control, also while a call
\* of the client is waiting at an await
setBaseUrl(baseUrl) ==
    /\ constructed
    /\ config' = [config EXCEPT !.baseUrl = stripTrailingSlash(baseUrl)]
    /\ UNCHANGED <<suspended, consumerVars, ctor, options, pc, attempt, lastError, result, url, requestHeaders,
                   timeout, timerArmed, controllerAborted, callerAborted, response,
                   lastOut, timerFired, nAttempts, sleeps, all500>>

\* mutant: an empty token leaves the Authorization default in place
setApiToken_keepHeader(token) ==
    /\ constructed
    /\ config' = [config EXCEPT
                     !.apiToken = token,
                     !.defaultHeaders =
                         IF token # "" THEN withAuthorization(config.defaultHeaders, token)
                         ELSE config.defaultHeaders]
    /\ UNCHANGED <<suspended, consumerVars, ctor, options, pc, attempt, lastError, result, url, requestHeaders,
                   timeout, timerArmed, controllerAborted, callerAborted, response,
                   lastOut, timerFired, nAttempts, sleeps, all500>>

\* setApiToken(token): sets the token and sets or deletes the Authorization header
setApiToken(token) ==
    /\ constructed
    /\ config' = [config EXCEPT
                     !.apiToken = token,
                     !.defaultHeaders =
                         IF token # "" THEN withAuthorization(config.defaultHeaders, token)
                         ELSE withoutKey(config.defaultHeaders, "Authorization")]
    /\ UNCHANGED <<suspended, consumerVars, ctor, options, pc, attempt, lastError, result, url, requestHeaders,
                   timeout, timerArmed, controllerAborted, callerAborted, response,
                   lastOut, timerFired, nAttempts, sleeps, all500>>

\* the response fields the model draws: retry-after is read only for 429, and the
\* reason phrase reaches an error only for statuses without a fixed status text
RetryAfterHeadersOf(status) ==
    IF status = RATE_LIMIT_STATUS THEN RetryAfterHeaders ELSE {""}
StatusTextsOf(status) ==
    IF status \in {200, 400, 401, 403, 404, 429} THEN {""} ELSE StatusTexts

Next ==
    \/ \E opts \in CallOptions : Call(opts)
    \/ \E status \in Statuses, contentType \in ContentTypes :
         \E statusText \in StatusTextsOf(status), retryAfter \in RetryAfterHeadersOf(status) :
            FetchResponds(status, statusText, contentType, retryAfter)
    \/ BodyDecoded
    \/ \E e \in {SyntaxError, TypeError(FALSE)} : BodyFails(e)
    \/ BodyAborted
    \/ \E e \in {TypeError(TRUE), TypeError(FALSE)} : FetchRejects(e)
    \/ FetchAborted
    \/ TimerFires
    \/ CallerAborts
    \/ SleepDone

Spec == Init /\ [][Next]_vars

\* ----- the client's configuration over its life -----
\* Every config object as to its baseUrl and token, and the setters interleaved with a
\* call through requestWithRetry against a server that answers 200 or 503 or is
\* unreachable.
ClientInputs ==
    [baseUrl : UrlStrings, apiToken : ApiTokens, timeout : {Absent}, retries : {0, 1},
     retryDelay : {0}, defaultHeaders : {NoHeaders}, throwOnError : {TRUE},
     validateStatus : {"default"}]

\* the arguments of setBaseUrl: the empty string, an origin, separators
SetterUrls == {s \in UrlStrings : Len(s) <= 2}

InitClient ==
    /\ \E input \in ClientInputs : Construct(input)
    /\ ConsumersIdle

NextClient ==
    \/ \E baseUrl \in SetterUrls : setBaseUrl(baseUrl)
    \/ \E token \in ApiTokens : setApiToken(token)
    \/ Call(CallOf("crawl", <<<<Origin>>>>, Undef, FALSE, NoHeaders))
    \/ \E status \in {200, 503} : FetchResponds(status, "", <<"application/json">>, "")
    \/ BodyDecoded
    \/ FetchRejects(TypeError(TRUE))
    \/ SleepDone

SpecClient == InitClient /\ [][NextClient]_vars

\* ----- the numeric options of the config -----
\* a numeric option of the config object: missing, undefined, NaN, or a number
NumericInputs == {Absent, Undef, NaN, 0, 1}

\* Every config object as to timeout, retries and retryDelay, and the calls of the
\* clients built from them against a server that answers 200 or 503 or not in time.
NumericConfigInputs ==
    [baseUrl : BaseUrls, apiToken : {""}, timeout : NumericInputs \ {1},
     retries : NumericInputs, retryDelay : NumericInputs \ {1},
     defaultHeaders : {NoHeaders}, throwOnError : {TRUE}, validateStatus : {"default"}]

InitConfig ==
    /\ \E input \in NumericConfigInputs : Construct(input)
    /\ ConsumersIdle

NextConfig ==
    \/ \E opts \in CallOptions : ~opts.signal /\ Call(opts)
    \/ \E status \in {200, 503} : FetchResponds(status, "", <<"application/json">>, "")
    \/ BodyDecoded
    \/ TimerFires
    \/ FetchAborted
    \/ SleepDone

SpecConfig == InitConfig /\ [][NextConfig]_vars

\* ----- the methods and their target URLs -----
\* Every method with every target list, on a client with one retry, against a server
\* that answers 200 or 503 with every content type.
InitCalls ==
    /\ Construct([baseUrl |-> <<Origin>>, apiToken |-> "", timeout |-> Absent, retries |-> 1,
                  retryDelay |-> 0, defaultHeaders |-> NoHeaders, throwOnError |-> TRUE,
                  validateStatus |-> "default"])
    /\ ConsumersIdle

NextCalls ==
    \/ \E method \in RetryMethods \cup DirectMethods :
         \E urls \in TargetLists(method) : Call(CallOf(method, urls, Undef, FALSE, NoHeaders))
    \/ \E status \in {200, 503}, contentType \in AllContentTypes :
         FetchResponds(status, "", contentType, "")
    \/ BodyDecoded
    \/ SleepDone

SpecCalls == InitCalls /\ [][NextCalls]_vars

\* ----- the headers of a request -----
\* the collaborator takes the outcome of the call; the client is idle for the next one
Finish ==
    /\ pc = "done"
    /\ pc' = "idle"
    /\ options' = CallOf("health", <<>>, Undef, FALSE, NoHeaders)
    /\ attempt' = 0
    /\ lastError' = NoError
    /\ result' = NoOutcome
    /\ url' = <<>>
    /\ requestHeaders' = NoHeaders
    /\ timeout' = Undef
    /\ response' = NoResponse
    /\ lastOut' = NoOutcome
    /\ nAttempts' = 0
    /\ sleeps' = <<>>
    /\ all500' = TRUE
    /\ UNCHANGED <<suspended, consumerVars, ctor, config, timerArmed, controllerAborted, callerAborted, timerFired>>

\* Every config object as to its token and default headers, setApiToken, and calls of
\* crawl one after the other with every per-call headers object, on a client with one
\* retry against a server that answers 200 or 503.
HeaderInputs ==
    [baseUrl : BaseUrls, apiToken : ApiTokens, timeout : {Absent}, retries : {1},
     retryDelay : {0}, defaultHeaders : HeaderMaps, throwOnError : {TRUE},
     validateStatus : {"default"}]

InitHeaders ==
    /\ \E input \in HeaderInputs : Construct(input)
    /\ ConsumersIdle

NextHeaders ==
    \/ \E token \in ApiTokens : setApiToken(token)
    \/ \E headers \in HeaderMaps : Call(CallOf("crawl", <<<<Origin>>>>, Undef, FALSE, headers))
    \/ \E status \in {200, 503} : FetchResponds(status, "", <<"application/json">>, "")
    \/ BodyDecoded
    \/ SleepDone
    \/ Finish

SpecHeaders == InitHeaders /\ [][NextHeaders]_vars

\* ----- Response Normalizer: normalizeArrayResponse() -----
\* Array.isArray(value)
isArray(v) == v.type = "array"

\* ToBoolean(value): arrays and objects are truthy, 0, '', null and undefined are not
ToBoolean(v) ==
    CASE v.type \in {"array", "object"} -> TRUE
      [] v.type \in {"number", "string"} -> v.num # 0
      [] OTHER -> FALSE

\* value[key], undefined when the object has no such property
get(v, key) == IF key \in DOMAIN v.fields THEN v.fields[key] ELSE Undefined

\* typeof value === 'object' && value !== null && ('results' in value || 'result' in value)
isApiArrayResponse(v) ==
    /\ v.type \in {"array", "object"}
    /\ "results" \in DOMAIN v.fields \/ "result" \in DOMAIN v.fields

\* mutant: `result` is looked at before `results`
normalize_resultFirst(v) ==
    IF isArray(v) THEN v
    ELSE IF isApiArrayResponse(v) /\ ToBoolean(get(v, "result")) /\ isArray(get(v, "result"))
    THEN get(v, "result")
    ELSE IF isApiArrayResponse(v) /\ ToBoolean(get(v, "results")) /\ isArray(get(v, "results"))
    THEN get(v, "results")
    ELSE Arr(<<v>>)

\* the value normalizeArrayResponse returns
normalize(v) ==
    IF isArray(v) THEN v
    ELSE IF isApiArrayResponse(v) /\ ToBoolean(get(v, "results")) /\ isArray(get(v, "results"))
    THEN get(v, "results")
    ELSE IF isApiArrayResponse(v) /\ ToBoolean(get(v, "result")) /\ isArray(get(v, "result"))
    THEN get(v, "result")
    ELSE Arr(<<v>>)

\* the values a server's JSON can decode to: arrays of up to MaxItems items, null,
\* numbers, strings, and objects with any of the properties results, result and foo
Arrays == {Arr(items) : items \in UNION {[1..n -> {Num(1), Num(2)}] : n \in 0..MaxItems}}
Primitives == {Null, Num(0), Num(1), Str(0), Str(1)}
Objects ==
    {Obj(fields) : fields \in UNION {[keys -> Arrays \cup Primitives] :
                                       keys \in SUBSET {"results", "result", "foo"}}}
DecodedValues == Arrays \cup Primitives \cup Objects

\* a method hands the decoded value to normalizeArrayResponse and returns what it returns
normalizeArrayResponse ==
    /\ constructed
    /\ normalized = Undefined
    /\ normalized' = normalize(data)
    /\ UNCHANGED <<data, sseInput, source, buffer, events, reader, streamEnd, clientVars, suspended>>

InitNormalize ==
    /\ Construct([baseUrl |-> <<Origin>>, apiToken |-> "", timeout |-> Absent, retries |-> 1,
                  retryDelay |-> 0, defaultHeaders |-> NoHeaders, throwOnError |-> TRUE,
                  validateStatus |-> "default"])
    /\ data \in DecodedValues
    /\ normalized = Undefined
    /\ StreamIdle

NextNormalize == normalizeArrayResponse

SpecNormalize == InitNormalize /\ [][NextNormalize]_vars

\* ----- testConnection() and version() -----
\* Both methods with and without throwOnError, on clients that throw on a failed status
\* or not, against a server that answers anything, is unreachable or does not answer
\* in time.
WrapperInputs ==
    [baseUrl : BaseUrls, apiToken : {""}, timeout : {Absent}, retries : {1},
     retryDelay : {0}, defaultHeaders : {NoHeaders}, throwOnError : BOOLEAN,
     validateStatus : {"default"}]

InitWrappers ==
    /\ \E input \in WrapperInputs : Construct(input)
    /\ ConsumersIdle

NextWrappers ==
    \/ \E method \in HealthWrappers, throwOnError \in BOOLEAN :
         Call(WrapperCall(method, throwOnError))
    \/ \E status \in Statuses, contentType \in ContentTypes :
         \E statusText \in StatusTextsOf(status), retryAfter \in RetryAfterHeadersOf(status) :
            FetchResponds(status, statusText, contentType, retryAfter)
    \/ BodyDecoded
    \/ \E e \in {SyntaxError, TypeError(FALSE)} : BodyFails(e)
    \/ \E e \in {TypeError(TRUE), TypeError(FALSE)} : FetchRejects(e)
    \/ TimerFires
    \/ FetchAborted

SpecWrappers == InitWrappers /\ [][NextWrappers]_vars

\* ----- Stream Decoder -----
\* Text is a sequence of tokens: a field name, ":", " ", a letter of a value, and the
\* line break characters "CR" and "LF".
EOL(crlf) == IF crlf THEN <<"CR", "LF">> ELSE <<"LF">>

RECURSIVE Concat(_)
Concat(texts) == IF Len(texts) = 0 THEN <<>> ELSE Head(texts) \o Concat(Tail(texts))

\* The server writes field lines and, to end a frame, a blank line. A line is given by
\* its field name and by whether it ends its frame; the value of the i-th line is the
\* i-th letter.
Letters == <<"a", "b", "c", "d">>
encodeLine(line, i, in) ==
    <<line.field, ":">> \o (IF in.space THEN <<" ">> ELSE <<>>) \o <<Letters[i]>>
    \o EOL(in.crlf) \o (IF line.endsFrame THEN EOL(in.crlf) ELSE <<>>)
encode(in) == Concat([i \in 1..Len(in.lines) |-> encodeLine(in.lines[i], i, in)])

\* up to MaxLines lines with a data, an event or an unknown field each, in frames of
\* every length, the last of which may be incomplete, in LF or CRLF framing, with or
\* without a space after the colon
SseInputs ==
    [lines : UNION {[1..n -> [field : {"data", "event", "x"}, endsFrame : BOOLEAN]] :
                    n \in 0..MaxLines},
     crlf : BOOLEAN, space : BOOLEAN]

\* where the first blank-line terminator of the text starts (two consecutive line
\* breaks, LF LF or CRLF CRLF), 0 when the text holds no complete frame
firstTerminator(text) ==
    LET starts == {i \in 1..Len(text) :
                    \/ i + 1 <= Len(text) /\ text[i] = "LF" /\ text[i + 1] = "LF"
                    \/ /\ i + 3 <= Len(text)
                       /\ text[i] = "CR" /\ text[i + 1] = "LF"
                       /\ text[i + 2] = "CR" /\ text[i + 3] = "LF"}
    IN IF starts = {} THEN 0 ELSE CHOOSE i \in starts : \A j \in starts : i <= j

\* the lines of a frame, without their line breaks
RECURSIVE splitLines(_)
splitLines(text) ==
    LET breaks == {k \in 1..Len(text) : text[k] = "LF"}
        k == IF breaks = {} THEN Len(text) + 1
             ELSE CHOOSE b \in breaks : \A c \in breaks : b <= c
        line == SubSeq(text, 1, k - 1)
        stripped == IF Len(line) > 0 /\ line[Len(line)] = "CR"
                    THEN SubSeq(line, 1, Len(line) - 1) ELSE line
    IN IF Len(text) = 0 THEN <<>>
       ELSE <<stripped>> \o splitLines(SubSeq(text, k + 1, Len(text)))

\* `field:value` with one leading space of the value stripped; a line without colon is
\* a field with an empty value; a comment line has the empty field name
parseLine(line) ==
    LET colons == {k \in 1..Len(line) : line[k] = ":"}
        c == IF colons = {} THEN Len(line) + 1
             ELSE CHOOSE k \in colons : \A j \in colons : k <= j
        rest == SubSeq(line, c + 1, Len(line))
    IN [field |-> SubSeq(line, 1, c - 1),
        value |-> IF Len(rest) > 0 /\ rest[1] = " " THEN Tail(rest) ELSE rest]

\* the lines of a frame applied to the event being built, field by field
RECURSIVE parseLines(_, _)
parseLines(lines, event) ==
    IF Len(lines) = 0 THEN event
    ELSE LET l == parseLine(Head(lines))
         IN parseLines(Tail(lines),
                IF l.field = <<"data">>
                THEN [event EXCEPT !.data = (IF event.lines = 0 THEN l.value
                                             ELSE @ \o <<"LF">> \o l.value),
                                   !.lines = @ + 1]
                ELSE IF l.field = <<"event">> THEN [event EXCEPT !.event = l.value]
                ELSE event)

\* the StreamEvent of a complete frame: its name, its data, the number of data lines
parseFrame(text) == parseLines(splitLines(text), [event |-> <<>>, data |-> <<>>, lines |-> 0])

\* the decoder takes the open stream handle a call returned
getReader ==
    /\ pc = "done" /\ result = Returned("response")
    /\ reader = "none"
    /\ reader' = "locked"
    /\ UNCHANGED <<data, normalized, sseInput, source, buffer, events, streamEnd, clientVars, suspended>>

\* mutant: a chunk replaces the buffer
ReadChunk_noCarry(n) ==
    /\ reader = "locked" /\ streamEnd = ""
    /\ firstTerminator(buffer) = 0
    /\ n \in 1..Len(source)
    /\ buffer' = SubSeq(source, 1, n)
    /\ source' = SubSeq(source, n + 1, Len(source))
    /\ UNCHANGED <<data, normalized, sseInput, events, reader, streamEnd, clientVars, suspended>>

\* the buffer holds no complete frame: the next chunk of the source, of n tokens, is
\* appended to it
ReadChunk(n) ==
    /\ reader = "locked" /\ streamEnd = ""
    /\ firstTerminator(buffer) = 0
    /\ n \in 1..Len(source)
    /\ buffer' = buffer \o SubSeq(source, 1, n)
    /\ source' = SubSeq(source, n + 1, Len(source))
    /\ UNCHANGED <<data, normalized, sseInput, events, reader, streamEnd, clientVars, suspended>>

\* the buffer holds a complete frame: it yields one StreamEvent and leaves the buffer
YieldEvent ==
    /\ reader = "locked" /\ streamEnd = ""
    /\ firstTerminator(buffer) # 0
    /\ LET i == firstTerminator(buffer)
           width == IF buffer[i] = "LF" THEN 2 ELSE 4
       IN /\ events' = Append(events, parseFrame(SubSeq(buffer, 1, i - 1)))
          /\ buffer' = SubSeq(buffer, i + width, Len(buffer))
    /\ UNCHANGED <<data, normalized, sseInput, source, reader, streamEnd, clientVars, suspended>>

\* mutant: an exit path that keeps the stream resource
EndDecoding_keepLocked(how) ==
    /\ reader = "locked" /\ streamEnd = ""
    /\ how = "closed" => (Len(source) = 0 /\ firstTerminator(buffer) = 0)
    /\ how = "break" => Len(events) > 0
    /\ streamEnd' = how
    /\ reader' = (IF how = "break" THEN "locked" ELSE "released")
    /\ UNCHANGED <<data, normalized, sseInput, source, buffer, events, clientVars, suspended>>

\* The decoding ends: the stream closes with every frame yielded ("closed"), the
\* consumer leaves the iteration at an event ("break"), the stream errors ("stream
\* error"), a chunk cannot be decoded ("decode error"). The stream resource is released.
EndDecoding(how) ==
    /\ reader = "locked" /\ streamEnd = ""
    /\ how = "closed" => (Len(source) = 0 /\ firstTerminator(buffer) = 0)
    /\ how = "break" => Len(events) > 0
    /\ streamEnd' = how
    /\ reader' = "released"
    /\ UNCHANGED <<data, normalized, sseInput, source, buffer, events, clientVars, suspended>>

\* A streaming crawl: the call returns the response of an event stream, which the
\* decoder consumes in chunks of every size.
InitStream ==
    /\ Construct([baseUrl |-> <<Origin>>, apiToken |-> "", timeout |-> Absent, retries |-> 1,
                  retryDelay |-> 0, defaultHeaders |-> NoHeaders, throwOnError |-> TRUE,
                  validateStatus |-> "default"])
    /\ data = Undefined
    /\ normalized = Undefined
    /\ sseInput \in SseInputs
    /\ source = encode(sseInput)
    /\ buffer = <<>>
    /\ events = <<>>
    /\ reader = "none"
    /\ streamEnd = ""

NextStream ==
    \/ Call(CallOf("crawl", <<<<Origin>>>>, Undef, FALSE, NoHeaders))
    \/ FetchResponds(200, "", <<"text/event-stream">>, "")
    \/ getReader
    \/ \E n \in 1..Len(source) : ReadChunk(n)
    \/ YieldEvent
    \/ \E how \in {"closed", "break", "stream error", "decode error"} : EndDecoding(how)

SpecStream == InitStream /\ [][NextStream]_vars

\* ----- a call to its end -----
\* A call on a client of every retry count, against a server that answers 200, 404, 429
\* or 500, is unreachable or does not answer in time. Every attempt settles and every
\* backoff sleep ends.
LiveInputs ==
    [baseUrl : BaseUrls, apiToken : {""}, timeout : {Absent}, retries : RetriesValues,
     retryDelay : {0}, defaultHeaders : {NoHeaders}, throwOnError : BOOLEAN,
     validateStatus : {"default"}]

InitLive ==
    /\ \E input \in LiveInputs : Construct(input)
    /\ ConsumersIdle

\* fetch or the body read settles, in whichever way
AttemptSettles ==
    \/ \E status \in {200, 404, 429, 500}, contentType \in {<<"application/json">>, <<"text/event-stream">>} :
         \E retryAfter \in RetryAfterHeadersOf(status) :
            FetchResponds(status, "", contentType, retryAfter)
    \/ BodyDecoded
    \/ BodyFails(SyntaxError)
    \/ BodyAborted
    \/ \E e \in {TypeError(TRUE), TypeError(FALSE)} : FetchRejects(e)
    \/ FetchAborted

NextLive ==
    \/ \E opts \in CallOptions : Call(opts)
    \/ AttemptSettles
    \/ TimerFires
    \/ CallerAborts
    \/ SleepDone

SpecLive == InitLive /\ [][NextLive]_vars /\ WF_vars(AttemptSettles) /\ WF_vars(SleepDone)

\* the direct methods and the two wrappers of health(), next to crawl, on every client of
\* LiveInputs and over every kind of outcome of an attempt
NextDirect ==
    \/ \E method \in DirectMethods, signal \in BOOLEAN :
         Call(CallOf(method, <<>>, Undef, signal, NoHeaders))
    \/ \E method \in HealthWrappers, throwOnError \in BOOLEAN :
         Call(WrapperCall(method, throwOnError))
    \/ Call(CallOf("crawl", <<<<Origin>>>>, Undef, FALSE, NoHeaders))
    \/ AttemptSettles
    \/ TimerFires
    \/ CallerAborts
    \/ SleepDone

SpecDirect == InitLive /\ [][NextDirect]_vars

\* mutant: the loop variable and lastError are kept on the client, one for all calls
Switch_sharedRetryState ==
    /\ constructed
    /\ suspended' = Activation
    /\ options' = suspended.options
    /\ pc' = suspended.pc
    /\ UNCHANGED <<attempt, lastError>>
    /\ result' = suspended.result
    /\ url' = suspended.url
    /\ requestHeaders' = suspended.requestHeaders
    /\ timeout' = suspended.timeout
    /\ timerArmed' = suspended.timerArmed
    /\ controllerAborted' = suspended.controllerAborted
    /\ callerAborted' = suspended.callerAborted
    /\ response' = suspended.response
    /\ lastOut' = suspended.lastOut
    /\ timerFired' = suspended.timerFired
    /\ nAttempts' = suspended.nAttempts
    /\ sleeps' = suspended.sleeps
    /\ all500' = suspended.all500
    /\ UNCHANGED <<consumerVars, ctor, config>>

\* Two logical calls on one client. The runtime runs one activation at a time: the call
\* in progress waits at an await (fetch, the body read, the backoff sleep) or has not
\* started or is over, and the next step to run belongs to the other call. The locals
\* of the two activations change places; this.config is the one object both read.
Switch ==
    /\ constructed
    /\ suspended' = Activation
    /\ options' = suspended.options
    /\ pc' = suspended.pc
    /\ attempt' = suspended.attempt
    /\ lastError' = suspended.lastError
    /\ result' = suspended.result
    /\ url' = suspended.url
    /\ requestHeaders' = suspended.requestHeaders
    /\ timeout' = suspended.timeout
    /\ timerArmed' = suspended.timerArmed
    /\ controllerAborted' = suspended.controllerAborted
    /\ callerAborted' = suspended.callerAborted
    /\ response' = suspended.response
    /\ lastOut' = suspended.lastOut
    /\ timerFired' = suspended.timerFired
    /\ nAttempts' = suspended.nAttempts
    /\ sleeps' = suspended.sleeps
    /\ all500' = suspended.all500
    /\ UNCHANGED <<consumerVars, ctor, config>>

\* a client with one retry and the default retry delay, two calls of crawl against a
\* server that answers 200, 404 or 500, is unreachable, or stays silent
InitConcurrent ==
    /\ Construct([baseUrl |-> <<Origin>>, apiToken |-> "", timeout |-> Absent, retries |-> 1,
                  retryDelay |-> Absent, defaultHeaders |-> NoHeaders, throwOnError |-> TRUE,
                  validateStatus |-> "default"])
    /\ ConsumersIdle

NextConcurrent ==
    \/ Call(CallOf("crawl", <<<<Origin>>>>, Undef, FALSE, NoHeaders))
    \/ \E status \in {200, 404, 500} : FetchResponds(status, "", <<"application/json">>, "")
    \/ BodyDecoded
    \/ FetchRejects(TypeError(TRUE))
    \/ TimerFires
    \/ FetchAborted
    \/ SleepDone
    \/ Switch

SpecConcurrent == InitConcurrent /\ [][NextConcurrent]_vars

TypeOK ==
    /\ constructed
    /\ config \in Configs
    /\ options \in CallOptions
    /\ pc \in {"idle", "fetch", "body", "sleeping", "done"}
    /\ attempt \in 0..(MaxRetries + 1)
    /\ nAttempts \in 0..(MaxRetries + 1)
    /\ Len(sleeps) <= MaxRetries
    /\ timerArmed \in BOOLEAN /\ timerFired \in BOOLEAN
    /\ controllerAborted \in BOOLEAN /\ callerAborted \in BOOLEAN
    /\ all500 \in BOOLEAN

\* ----- properties -----
Last(q) == q[Len(q)]
IsClientError(status) == status >= 400 /\ status < 500 /\ status # 429
PredicateFails(resp) == resp.status # 0 /\ ~validateStatus(resp.status)
TimeoutInForce == IF options.timeout # Undef THEN options.timeout ELSE config.timeout
ResolvedAddress == config.baseUrl \o <<endpoint(options)>>

\* C1: once an attempt of requestWithRetry has received a response with a status in
\* [400,500) other than 429, the call issues no further attempt and sleeps no backoff,
\* whatever the retry count: that response gets exactly one attempt.
C1_ClientErrorSingleAttempt ==
    [][(options.viaRetry /\ IsClientError(response.status))
          => (nAttempts' = nAttempts /\ sleeps' = sleeps)]_vars

\* C2: with retries = R and retryDelay = D, while every attempt fails on a 500 response
\* the k-th sleep is D * 2^(k-1), one sleep separates consecutive attempts, and the call
\* ends failed after exactly R+1 attempts and R sleeps.
C2_Persistent500Schedule ==
    (options.viaRetry /\ config.retries # Undef /\ all500) =>
        /\ \A k \in 1..Len(sleeps) : sleeps[k] = config.retryDelay * 2^(k - 1)
        /\ pc \in {"fetch", "body"} => Len(sleeps) = nAttempts - 1
        /\ pc = "sleeping" => Len(sleeps) = nAttempts /\ nAttempts <= config.retries
        /\ pc = "done" => /\ nAttempts = config.retries + 1
                          /\ Len(sleeps) = config.retries
                          /\ result.type = "throw"

C2_Witness ==
    /\ pc = "done" /\ options.viaRetry /\ all500
    /\ config.retries >= 2 /\ config.retryDelay > 0
    /\ nAttempts = config.retries + 1
    /\ result.error.kind = "ServerError"

\* C3: when an attempt fails with the RateLimitError of a 429 response whose retry-after
\* header is the number R >= 0 and attempts remain, the sleep that follows lasts R * 1000.
C3_RetryAfterDelay ==
    \A R \in 0..MaxRetryAfter :
        (/\ options.viaRetry /\ pc = "sleeping"
         /\ response.status = 429 /\ response.retryAfter = ToString(R)
         /\ lastOut.error.kind = "RateLimitError")
            => Last(sleeps) = R * 1000

\* C4: when an attempt fails on a 429 response that has no retry-after header, a
\* RateLimitError made for it has retryAfter undefined, and while attempts remain the
\* call sleeps retryDelay * 2^attempt before the next attempt.
C4_RateLimitNoHeader ==
    (/\ options.viaRetry /\ lastOut.type = "throw"
     /\ response.status = 429 /\ response.retryAfter = "")
        => /\ lastOut.error.status = 429 =>
                (lastOut.error.kind = "RateLimitError" /\ lastOut.error.retryAfter = Undef)
           /\ attempt < config.retries =>
                (pc = "sleeping" /\ Last(sleeps) = config.retryDelay * 2^attempt)

C4_Witness ==
    /\ options.viaRetry /\ pc = "sleeping" /\ attempt = 1
    /\ response.status = 429 /\ response.retryAfter = ""
    /\ lastOut.error.kind = "RateLimitError"
    /\ config.retryDelay > 0

C7_DeadlineIsTimeoutError ==
    (timerFired /\ lastOut.type # "none")
        => /\ lastOut.type = "throw"
           /\ lastOut.error.kind = "TimeoutError"
           /\ lastOut.error.timeout = TimeoutInForce
           /\ lastOut.error.url = ResolvedAddress

\* C8: with throwOnError = true, no response whose status fails the predicate leaves
\* request() as a returned value, whatever its content type.
C8_StatusAlwaysValidated ==
    (config.throwOnError /\ PredicateFails(response) /\ lastOut.type # "none")
        => lastOut.type = "throw"

\* C9: whatever request() throws is an instance of Crawl4AIError.
C9_OnlyClassifiedErrors ==
    lastOut.type = "throw" => lastOut.error.kind \in Crawl4AIErrorKinds

\* C10: when the body of an application/json response cannot be decoded, the attempt
\* leaves request() with a ParseError.
C10_JsonDecodeParseError ==
    [][BodyFails(SyntaxError)
          => (lastOut'.type = "throw" /\ lastOut'.error.kind = "ParseError")]_vars

\* ----- Error Taxonomy: createHttpError on the responses the executor rejects -----
\* the last attempt raised the error createHttpError built from its response
HttpErrorThrown == lastOut.type = "throw" /\ lastOut.error.request # <<>>
DedicatedStatuses == {400, 401, 403, 404, 429, 500, 502, 503, 504}

\* C11: every rejected response with a status in 500..599 is raised as a ServerError
\* carrying that status
C11_Every5xxIsServerError ==
    (HttpErrorThrown /\ response.status >= 500 /\ response.status <= 599)
        => (lastOut.error.kind = "ServerError" /\ lastOut.error.status = response.status)

\* C12: every rejected response is raised as exactly one kind of the taxonomy, the kind
\* is the same whatever the status text and the body, and a status without a dedicated
\* kind is raised as the generic Crawl4AIError with status, status text and body kept
C12_ClassificationTotal ==
    HttpErrorThrown =>
        /\ lastOut.error.kind \in Crawl4AIErrorKinds
        /\ \A st \in StatusTexts, d \in {"", "body"} :
              createHttpError(response.status, st, d, response.retryAfter).kind
                  = lastOut.error.kind
        /\ response.status \notin DedicatedStatuses =>
              /\ lastOut.error.kind = "Crawl4AIError"
              /\ lastOut.error.status = response.status
              /\ lastOut.error.statusText = response.statusText
              /\ lastOut.error.data = "body"

C12_Witness ==
    /\ HttpErrorThrown
    /\ response.status = 418
    /\ response.statusText = "Reason Phrase"
    /\ lastOut.error.kind = "Crawl4AIError"

\* C13 as stated: a RequestValidationError is never raised from a server response
C13_ValidationOnlyBeforeNetwork ==
    (lastOut.type = "throw" /\ lastOut.error.kind = "RequestValidationError")
        => response = NoResponse

\* C13: among the errors raised from a server response, the RequestValidationError is
\* the error of status 400 and of no other status
C13_ValidationIffStatus400 ==
    HttpErrorThrown =>
        (lastOut.error.kind = "RequestValidationError" <=> response.status = 400)

C13_Witness ==
    /\ HttpErrorThrown
    /\ response.status = 400
    /\ lastOut.error.kind = "RequestValidationError"
    /\ lastOut.error.statusText = "Bad Request"

\* ----- Retry Coordinator: recovery, exhaustion, ordering -----
\* C14: when an attempt of requestWithRetry succeeds, after any number of failed
\* attempts that were each followed by a backoff sleep, the call is over with that
\* attempt's value as its result, no error in it, and no attempt follows
C14_SuccessEndsTheCall ==
    (options.viaRetry /\ lastOut.type = "return") =>
        /\ pc = "done"
        /\ result = lastOut
        /\ result.error = NoError
        /\ Len(sleeps) = nAttempts - 1
        /\ attempt = nAttempts - 1

C14_Witness ==
    /\ options.viaRetry
    /\ pc = "done"
    /\ result = Returned("body")
    /\ nAttempts = 3
    /\ lastError.kind = "TimeoutError"

\* C16: when requestWithRetry ends in failure after at least one attempt, the error
\* it throws is the error the last attempt raised, with every field as request() left it
C16_LastErrorRethrown ==
    (options.viaRetry /\ pc = "done" /\ result.type = "throw" /\ nAttempts >= 1)
        => (lastOut.type = "throw" /\ result.error = lastOut.error)

\* the first attempt failed on a 429 with retry-after 2, the final one on a 5xx
C16_Witness ==
    /\ options.viaRetry
    /\ pc = "done"
    /\ attempt > config.retries
    /\ config.retryDelay = 0
    /\ sleeps # <<>>
    /\ sleeps[1] = 2000
    /\ result.type = "throw"
    /\ result.error.kind = "ServerError"

\* C17: a fetch is issued only when the call starts or when a backoff sleep ends, one
\* at a time, and a sleep is entered only after the previous attempt has failed
C17_AttemptsSequential ==
    [][nAttempts' # nAttempts =>
          /\ nAttempts' = nAttempts + 1
          /\ pc \in {"idle", "sleeping"}
          /\ pc = "sleeping" => (lastOut.type = "throw" /\ ~timerArmed)]_vars

C17_Witness ==
    /\ options.viaRetry
    /\ pc = "fetch"
    /\ nAttempts = 2
    /\ Len(sleeps) = 1

C18_SettersTakeEffectNextAttempt ==
    [][/\ config' # config =>
            /\ url' = url
            /\ requestHeaders' = requestHeaders
            /\ pc' = pc
            /\ nAttempts' = nAttempts
       /\ nAttempts' # nAttempts =>
            /\ url' = config.baseUrl \o <<endpoint(options')>>
            /\ requestHeaders' = overlay(config.defaultHeaders, options'.headers)]_vars

\* the second attempt goes to another address than the first, with a token set after
\* construction
C18_Witness ==
    /\ pc = "fetch"
    /\ nAttempts = 2
    /\ lastError.request # <<>>
    /\ lastError.request # url
    /\ url = ResolvedAddress
    /\ ctor.input.apiToken = ""
    /\ "Authorization" \in DOMAIN requestHeaders
    /\ requestHeaders["Authorization"] = "Bearer token"

\* C19: the stored base address of a client never ends with '/'
C19_NoTrailingSeparator ==
    constructed => (config.baseUrl = <<>> \/ Last(config.baseUrl) # "/")

\* a string with no scheme: new URL(s) throws
Unparseable(s) == s # <<>> /\ Head(s) # Origin

\* C20: for a missing or unparseable baseUrl the constructor throws a
\* RequestValidationError, there is no client, and no fetch is ever issued
C20_BadBaseUrlNoClient ==
    (ctor.input.baseUrl = <<>> \/ Unparseable(ctor.input.baseUrl)) =>
        /\ ctor.error.kind = "RequestValidationError"
        /\ config = NoConfig
        /\ pc = "idle"
        /\ nAttempts = 0

C20_Witness ==
    /\ Unparseable(ctor.input.baseUrl)
    /\ ctor.error.kind = "RequestValidationError"
    /\ ~constructed

\* a JavaScript number, as opposed to undefined or NaN
IsNumber(n) == n \notin {Absent, Undef, NaN}

\* C21: a constructed client holds timeout > 0, retries >= 0 and retryDelay >= 0,
\* the constructor having thrown for a supplied value that is not such a number, and
\* an attempt in flight runs under a timeout > 0
C21_NumericConfigValid ==
    /\ constructed =>
          /\ IsNumber(config.timeout) /\ config.timeout > 0
          /\ IsNumber(config.retries) /\ config.retries >= 0
          /\ IsNumber(config.retryDelay) /\ config.retryDelay >= 0
    /\ pc \in {"fetch", "body"} => (IsNumber(timeout) /\ timeout > 0)
    /\ (ctor.input.timeout \in {NaN, 0} \/ ctor.input.retries = NaN
            \/ ctor.input.retryDelay = NaN) =>
          ctor.error.kind = "RequestValidationError"

\* ----- the methods: validation of the target URLs -----
\* C22: a call of crawl, markdown, html, executeJs or llm with a target URL that does
\* not parse (for crawl: any element of the list) ends at once with a
\* RequestValidationError and no fetch is issued
C22_InvalidTargetRejected ==
    (/\ options.method \in {"crawl", "markdown", "html", "executeJs", "llm"}
     /\ \E i \in 1..Len(options.urls) :
            options.urls[i] = <<>> \/ Unparseable(options.urls[i])) =>
        /\ pc = "done"
        /\ result.type = "throw"
        /\ result.error.kind = "RequestValidationError"
        /\ nAttempts = 0
        /\ lastOut = NoOutcome

\* crawl of a list whose first URL parses and whose second does not
C22_Witness ==
    /\ options.method = "crawl"
    /\ Len(options.urls) = 2
    /\ options.urls[1] = <<Origin>>
    /\ Unparseable(options.urls[2])
    /\ pc = "done"
    /\ result.error.kind = "RequestValidationError"

\* ----- the headers of a request -----
\* C23: when a fetch is issued, its headers are the client's default headers overlaid
\* by the call's headers, the call's value on every name both have; Content-Type is
\* application/json unless the config or the call sets it; and with a token
\* configured, Authorization is `Bearer <token>` unless the call sets it
C23_HeadersOverlay ==
    [][nAttempts' = nAttempts + 1 =>
          /\ DOMAIN requestHeaders' = DOMAIN config.defaultHeaders \cup DOMAIN options'.headers
          /\ \A k \in DOMAIN requestHeaders' :
                requestHeaders'[k] = IF k \in DOMAIN options'.headers
                                     THEN options'.headers[k]
                                     ELSE config.defaultHeaders[k]
          /\ ("Content-Type" \notin DOMAIN options'.headers
                  /\ "Content-Type" \notin DOMAIN ctor.input.defaultHeaders)
                => requestHeaders'["Content-Type"] = "application/json"
          /\ (config.apiToken # "" /\ "Authorization" \notin DOMAIN options'.headers)
                => requestHeaders'["Authorization"] = "Bearer " \o config.apiToken]_vars

\* a request that carries the token set after construction over the Authorization of
\* the config's defaultHeaders, and the call's own Content-Type
C23_Witness ==
    /\ pc = "fetch"
    /\ "Authorization" \in DOMAIN ctor.input.defaultHeaders
    /\ ctor.input.apiToken = ""
    /\ config.apiToken = "token"
    /\ DOMAIN options.headers = {"Content-Type"}
    /\ requestHeaders["Authorization"] = "Bearer token"
    /\ requestHeaders["Content-Type"] = options.headers["Content-Type"]

\* C24: a step of a call (one that moves the call or issues a fetch) leaves the
\* client's config, its default headers included, as it was
C24_DefaultsUntouched ==
    [][(pc' # pc \/ nAttempts' # nAttempts) => config' = config]_vars

\* a call sent with headers of its own for every name has failed once
C24_Witness ==
    /\ pc = "sleeping"
    /\ DOMAIN options.headers = HeaderKeys
    /\ requestHeaders = options.headers
    /\ requestHeaders # config.defaultHeaders

\* ----- the content-type dispatch -----
\* C25: a response declared application/json is read with json(), one declared
\* text/html or text/plain with text(), one declared text/event-stream is not read and
\* is itself what request() returns, and one of another or no content type is read
\* with text()
C25_ContentTypeDispatch ==
    response # NoResponse =>
        LET mediaType == IF response.contentType = <<>> THEN "" ELSE Head(response.contentType)
        IN /\ mediaType = "application/json" => response.bodyRead = "json"
           /\ mediaType \in {"text/html", "text/plain"} => response.bodyRead = "text"
           /\ mediaType = "text/event-stream" =>
                 /\ response.bodyRead = "none"
                 /\ pc # "body"
                 /\ lastOut = Returned("response")
           /\ mediaType \in {"", "application/xml"} => response.bodyRead = "text"
           /\ (response.bodyRead # "none" /\ lastOut.type = "return")
                 => lastOut.value = "body"

C25_Witness ==
    /\ response.contentType = <<"text/event-stream", "; charset=utf-8">>
    /\ response.bodyRead = "none"
    /\ pc = "done"
    /\ result = Returned("response")

\* ----- the Response Normalizer -----
\* C26: normalizeArrayResponse returns an array as it is; else, of an object whose
\* `results` is an array, that array; else, of an object whose `result` is an array,
\* that array; otherwise a one-element array holding the value. What it returns is
\* always an array.
C26_NormalizePriority ==
    normalized # Undefined =>
        /\ normalized.type = "array"
        /\ normalized =
             (IF data.type = "array" THEN data
              ELSE IF /\ data.type = "object"
                      /\ "results" \in DOMAIN data.fields
                      /\ data.fields["results"].type = "array"
              THEN data.fields["results"]
              ELSE IF /\ data.type = "object"
                      /\ "result" \in DOMAIN data.fields
                      /\ data.fields["result"].type = "array"
              THEN data.fields["result"]
              ELSE Arr(<<data>>))

C26_Witness ==
    /\ data = Obj([k \in {"results", "result"} |->
                    IF k = "results" THEN Arr(<<Num(1), Num(2)>>) ELSE Arr(<<Num(2)>>)])
    /\ normalized = Arr(<<Num(1), Num(2)>>)

\* ----- testConnection() and version() -----
\* C27: testConnection() and version() called without throwOnError never reject; when
\* the health request fails with whatever error, testConnection resolves to false and
\* version to 'unknown', and with throwOnError = true that same error is rethrown.
C27_WrappersSwallowErrors ==
    (pc = "done" /\ options.method \in HealthWrappers) =>
        /\ ~options.throwOnError => result.type = "return"
        /\ lastOut.type = "throw" =>
              result = (IF options.throwOnError THEN lastOut
                        ELSE IF options.method = "testConnection" THEN Returned("false")
                        ELSE Returned("unknown"))

C27_Witness ==
    /\ pc = "done"
    /\ options = WrapperCall("version", FALSE)
    /\ lastOut.type = "throw" /\ lastOut.error.kind = "ServerError"
    /\ result = Returned("unknown")

\* ----- the Stream Decoder -----
\* the StreamEvents the lines from the i-th on stand for, event being the one that the
\* lines of the frame before the i-th have built: a data line adds its value after one
\* line break, an event line names the event, another line adds nothing, and the line
\* that ends its frame completes the event
RECURSIVE ExpectedEvents(_, _, _)
ExpectedEvents(lines, i, event) ==
    IF i > Len(lines) THEN <<>>
    ELSE LET built ==
                 CASE lines[i].field = "data" ->
                        [event EXCEPT !.data = (IF event.lines = 0 THEN <<Letters[i]>>
                                                ELSE @ \o <<"LF", Letters[i]>>),
                                      !.lines = @ + 1]
                   [] lines[i].field = "event" -> [event EXCEPT !.event = <<Letters[i]>>]
                   [] OTHER -> event
         IN IF lines[i].endsFrame
            THEN <<built>> \o ExpectedEvents(lines, i + 1, [event |-> <<>>, data |-> <<>>, lines |-> 0])
            ELSE ExpectedEvents(lines, i + 1, built)

Expected == ExpectedEvents(sseInput.lines, 1, [event |-> <<>>, data |-> <<>>, lines |-> 0])

\* C28: however the text of the stream is split into chunks, the decoder yields the
\* same StreamEvents as for the unsplit text, one per complete frame in order: the
\* values of the frame's data lines joined with exactly one line break in order,
\* unknown fields ignored.
C28_ChunkingInsensitive ==
    /\ Len(events) <= Len(Expected)
    /\ events = SubSeq(Expected, 1, Len(events))
    /\ streamEnd = "closed" => events = Expected

\* a frame of two data lines has been yielded with its data joined, and a chunk
\* boundary falls inside the terminator of the next frame, which has an unknown field
C28_Witness ==
    /\ sseInput.crlf
    /\ sseInput.lines = <<[field |-> "data", endsFrame |-> FALSE],
                          [field |-> "data", endsFrame |-> TRUE],
                          [field |-> "x", endsFrame |-> TRUE]>>
    /\ events = <<[event |-> <<>>, data |-> <<"a", "LF", "b">>, lines |-> 2]>>
    /\ Len(buffer) > 0 /\ buffer[Len(buffer)] = "CR"
    /\ source = <<"LF">>

C30_AtLeastOneAttempt ==
    (constructed /\ options.viaRetry /\ pc = "done") =>
        /\ nAttempts >= 1
        /\ result # Thrown(NoAttemptsMade)

\* C31: a call through requestWithRetry whose attempts all settle comes to its end,
\* having made at most retries + 1 attempts and slept at most retries times, whatever
\* the outcomes of its attempts (no attempt and no sleep when retries is undefined).
C31_RetryTerminates ==
    /\ [](options.viaRetry =>
            /\ nAttempts <= (IF config.retries = Undef THEN 0 ELSE config.retries + 1)
            /\ Len(sleeps) <= (IF config.retries = Undef THEN 0 ELSE config.retries))
    /\ (options.viaRetry /\ pc \in {"fetch", "body", "sleeping"}) ~> (pc = "done")

C31_Witness ==
    /\ options.viaRetry /\ pc = "done"
    /\ config.retries = MaxRetries
    /\ nAttempts = MaxRetries + 1
    /\ Len(sleeps) = MaxRetries
    /\ result.type = "return"

\* ----- the deadline -----
\* C32: the deadline bounds every request, with or without a caller signal: once the
\* deadline timer of an attempt has fired, the fetch still in flight is aborted, so
\* that the attempt settles although the server never answers.
C32_DeadlineBoundsRequest ==
    (pc = "fetch" /\ timerFired) => requestSignalAborted

\* ----- the caller's cancellation signal -----
\* C33: once the caller has aborted the signal it supplied, the call makes no further
\* network attempt and no further backoff sleep, and the attempt that the abort ends
\* fails with an error that is not a TimeoutError.
C33_CallerAbortEndsCall ==
    [][(options.viaRetry /\ options.signal /\ callerAborted) =>
          /\ nAttempts' = nAttempts
          /\ sleeps' = sleeps
          /\ (pc \in {"fetch", "body"} /\ pc' \notin {"fetch", "body"} /\ lastOut'.type = "throw")
                => lastOut'.error.kind # "TimeoutError"]_vars

\* C34: whenever no fetch of the call is in flight (the response has arrived and its body
\* is being read, the attempt has left request() by a return or a throw, the call sleeps
\* or is over), the deadline timer of the attempt is not armed, so it cannot fire later.
C34_TimerCancelledOnExit ==
    pc # "fetch" => ~timerArmed

\* an attempt failed before its deadline and the call sleeps with the timer cancelled;
\* and a response arrived before the deadline and its body is being read
C34_Witness ==
    /\ pc = "sleeping" /\ lastOut.type = "throw" /\ ~timerFired /\ ~timerArmed
    /\ response.status = 500

\* C35 (as stated): with throwOnError = false, once an attempt of a call through
\* requestWithRetry has received a response whose status fails the predicate, the call
\* does not go on to a backoff sleep.
C35_NoRetryAfterResponse ==
    (/\ options.viaRetry /\ ~config.throwOnError
     /\ response # NoResponse /\ ~validateStatus(response.status)) => pc # "sleeping"

\* C35 (amended): with throwOnError = false, an attempt that received a response and left
\* request() either returned, and then the call is over with that value and no sleep
\* follows, or threw an error that does not come from the status check (the body read
\* failed or was aborted); a failing status alone never causes a retry.
C35_NoRetryOnSwallowedStatus ==
    (options.viaRetry /\ ~config.throwOnError /\ response # NoResponse /\ lastOut.type # "none")
        => \/ lastOut.type = "return" /\ pc = "done" /\ result = lastOut
           \/ lastOut.type = "throw" /\ ~HttpErrorThrown

\* a 429 answer on the first attempt of a client with retries left ends the call
C35_Witness ==
    /\ options.viaRetry /\ ~config.throwOnError /\ config.retries = MaxRetries
    /\ response.status = 429 /\ ~validateStatus(response.status)
    /\ lastOut = Returned("body") /\ pc = "done" /\ nAttempts = 1 /\ sleeps = <<>>

\* C36: a call of health, metrics, schema, getRoot, testConnection or version never
\* sleeps and issues at most one network attempt, exactly one once it is over, whatever
\* the configured retries and however its attempt failed.
C36_DirectCallsOneAttempt ==
    (options.method \in {"health", "metrics", "schema", "getRoot", "testConnection", "version"}) =>
        /\ pc # "sleeping"
        /\ sleeps = <<>>
        /\ nAttempts <= 1
        /\ pc = "done" => nAttempts = 1

\* on a client with retries, health() answered 429 and version() run into a network
\* failure are over after their one attempt
C36_Witness ==
    /\ config.retries = MaxRetries /\ pc = "done" /\ nAttempts = 1 /\ sleeps = <<>>
    /\ lastOut.type = "throw"
    /\ \/ options.method = "health" /\ lastOut.error.kind = "RateLimitError"
       \/ options.method = "version" /\ lastOut.error.kind = "NetworkError"

\* ----- the Authorization default -----
\* a step that changes the config stores a token, sets the Authorization default to
\* 'Bearer <token>' for a non-empty token and removes it for the empty one, and changes
\* no other default header and no other config field
TokenStep ==
    config' # config =>
        /\ config'.apiToken # "" =>
              /\ "Authorization" \in DOMAIN config'.defaultHeaders
              /\ config'.defaultHeaders["Authorization"] = "Bearer " \o config'.apiToken
        /\ config'.apiToken = "" => "Authorization" \notin DOMAIN config'.defaultHeaders
        /\ withoutKey(config'.defaultHeaders, "Authorization")
              = withoutKey(config.defaultHeaders, "Authorization")
        /\ config' = [config EXCEPT !.apiToken = config'.apiToken,
                                    !.defaultHeaders = config'.defaultHeaders]

\* C37 (as stated): setApiToken sets or removes the Authorization default after the
\* token it is given and changes nothing else, and in every state of a constructed
\* client the Authorization default is present only if the stored token is non-empty.
C37_AuthorizationOnlyWithToken ==
    /\ [][TokenStep]_vars
    /\ [](constructed =>
            ("Authorization" \in DOMAIN config.defaultHeaders => config.apiToken # ""))

\* C37 (amended): setApiToken sets or removes the Authorization default after the token
\* it is given and changes nothing else; in every state of a constructed client a
\* non-empty stored token has its 'Bearer <token>' default, and an Authorization default
\* next to an empty stored token is the one the caller passed to the constructor in
\* defaultHeaders, on a client built without token whose defaults are still those of
\* its construction.
C37_AuthorizationFollowsToken ==
    /\ [][TokenStep]_vars
    /\ [](constructed =>
            /\ config.apiToken # "" =>
                  /\ "Authorization" \in DOMAIN config.defaultHeaders
                  /\ config.defaultHeaders["Authorization"] = "Bearer " \o config.apiToken
            /\ (config.apiToken = "" /\ "Authorization" \in DOMAIN config.defaultHeaders) =>
                  /\ ctor.input.apiToken = ""
                  /\ "Authorization" \in DOMAIN ctor.input.defaultHeaders
                  /\ config.defaultHeaders = overlay(defaultContentType, ctor.input.defaultHeaders))

\* the token a client was built with has been removed: the Authorization default is
\* gone and the Content-Type default the caller configured is still there
C37_Witness ==
    /\ constructed
    /\ ctor.input.apiToken = "token" /\ config.apiToken = ""
    /\ DOMAIN ctor.input.defaultHeaders = HeaderKeys
    /\ DOMAIN config.defaultHeaders = {"Content-Type"}
    /\ config.defaultHeaders["Content-Type"] = ctor.input.defaultHeaders["Content-Type"]

\* C38: the stored base address of a constructed client, after any sequence of setter
\* calls, is a string new URL() parses as an absolute URL.
C38_StoredBaseUrlValid ==
    constructed => (config.baseUrl # <<>> /\ ~Unparseable(config.baseUrl))

\* ----- two calls on one client -----
\* the retry state of an activation follows from its own attempts: the loop variable
\* counts its own fetches, it has slept once per failed attempt of its own and for the
\* backoff delay of that attempt, lastError is the error of its own last attempt, and
\* what it settles with is the outcome of its own last attempt
RetryStateOwn(a) ==
    a.options.viaRetry =>
        /\ a.pc \in {"fetch", "body"} => a.nAttempts = a.attempt + 1 /\ Len(a.sleeps) = a.attempt
        /\ a.pc = "sleeping" =>
              /\ a.nAttempts = a.attempt + 1 /\ Len(a.sleeps) = a.attempt + 1
              /\ a.lastError = a.lastOut.error
        /\ \A i \in 1..Len(a.sleeps) : a.sleeps[i] = backoffDelay(i - 1)
        /\ (a.pc = "done" /\ a.nAttempts > 0) =>
              /\ a.result = a.lastOut
              /\ a.result.type = "throw" => a.result.error = a.lastError

\* C39: of two logical calls on one client, each has the retry state its own attempts
\* give it, and a step of one leaves the locals of the other as they are (a step either
\* does not touch the waiting activation or exchanges the two activations whole).
C39_CallsIndependent ==
    /\ [](RetryStateOwn(Activation) /\ RetryStateOwn(suspended))
    /\ [][\/ suspended' = suspended
          \/ suspended' = Activation /\ Activation' = suspended]_vars

\* one call has used up its attempts on network failures while the other, started
\* meanwhile, has failed once on a 500 answer and sleeps before its second attempt
C39_Witness ==
    /\ pc = "done" /\ nAttempts = 2 /\ result.type = "throw"
    /\ result.error.kind = "NetworkError"
    /\ suspended.pc = "sleeping" /\ suspended.nAttempts = 1 /\ suspended.attempt = 0
    /\ suspended.lastError.kind = "ServerError"

====
